---- MODULE Spec2Model ----
(***************************************************************************)
(* The agent turn loop of ai-coder (runAgentLoop, src/agent/loop.ts) as a  *)
(* state machine: one LLM call per turn, sequential tool execution,        *)
(* retry with exponential backoff around retryable LLM failures; with the  *)
(* checkpoint store (CheckpointManager), the job queue, processJob and the *)
(* resume route around it.                                                 *)
(***************************************************************************)
EXTENDS Integers, Sequences, FiniteSets, TLC

VARIABLES
    pc,             \* position of runAgentLoop
    turns,          \* let turns
    maxTurns,       \* const maxTurns = env.MAX_AGENT_TURNS
    messages,       \* const messages: Message[]
    toolUseBlocks,  \* the tool_use blocks of the response being processed
    toolIdx,        \* position of the for..of loop over toolUseBlocks
    toolResults,    \* const toolResults: ContentBlock[]
    attempt,        \* the retry loop's attempt (0 outside the retry loop)
    errorMessage,   \* errorMessage of the catch block
    outcome,        \* how the run ended: nothing yet, a returned AgentResult, a thrown AgentError
    processed,      \* history: number of LLM responses received and processed
    callsThisTurn,  \* history: chat calls issued since the last turns++
    sleeps,         \* history: the delays slept since the last turns++
    respTurns,      \* history: the turn number each processed response carried
    turnBase,       \* history: value of turns before the last turns++
    lastError,      \* history: message of the latest LLM failure since the last turns++
    anyFailure,     \* history: some llmProvider.chat call of the run has failed
    lastResp,       \* history: the latest response received
    toolRuns,       \* history: executeTool calls made for the latest response
    toolFailed,     \* history: the tool calls of the latest batch whose handler threw
    stopReasons,    \* history: the stop reason of each processed response
    toolCompleted,  \* history: some executed tool has reported completion
    progressed,     \* history: the turn values onProgress was called with
    redis,          \* the Redis keys of the checkpoint store: key -> [data, expireAt]
    now,            \* the clock, in seconds
    lastOp,         \* the latest CheckpointManager call and what it gave its caller
    written,        \* history: per job id, the latest successful write to its key
    jobs,           \* the BullMQ queue: job id -> [state, data, ...]
    jobPc,          \* position of processJob
    progress,       \* the percentages processJob passed to job.updateProgress itself
    jobResult,      \* let result: JobResult of processJob
    callbacks,      \* the callbacks sendCallback has posted, with what sendCallback returned
    cleanups        \* history: the calls of cleanupJobWorkspaces processJob has made,
                    \* each with whether its rm failed

loopVars == <<pc, turns, maxTurns, messages, toolUseBlocks, toolIdx, toolResults,
          attempt, errorMessage, outcome, processed, callsThisTurn, sleeps,
          respTurns, turnBase, lastError, anyFailure, lastResp, toolRuns, toolFailed,
          stopReasons, toolCompleted, progressed>>

storeVars == <<redis, now, lastOp, written>>

jobVars == <<jobs, jobPc, progress, jobResult, callbacks, cleanups>>

vars == <<loopVars, storeVars, jobVars>>

(***************************************************************************)
(* Bounds of the model.                                                    *)
(***************************************************************************)
MaxTurnsBound == 2      \* maxTurns is drawn from 1..MaxTurnsBound
MaxResponses == 2       \* successful LLM responses per run

(***************************************************************************)
(* Constants of the program.                                               *)
(***************************************************************************)
MAX_RETRIES == 5
INITIAL_RETRY_DELAY_MS == 10000
RETRYABLE_STATUS_CODES == <<429, 529, 500, 502, 503, 504>>

(***************************************************************************)
(* Strings.                                                                *)
(***************************************************************************)
\* String(n) for a non-negative integer
RECURSIVE NumToStr(_)
NumToStr(n) ==
    IF n < 10 THEN SubSeq("0123456789", n + 1, n + 1)
    ELSE NumToStr(n \div 10) \o SubSeq("0123456789", (n % 10) + 1, (n % 10) + 1)

\* String.prototype.includes
includes(message, sub) ==
    \E i \in 1..(Len(message) - Len(sub) + 1) :
        SubSeq(message, i, i + Len(sub) - 1) = sub

\* Array.prototype.join
RECURSIVE join(_, _)
join(strs, sep) ==
    IF Len(strs) = 0 THEN ""
    ELSE IF Len(strs) = 1 THEN strs[1]
    ELSE strs[1] \o sep \o join(Tail(strs), sep)

RECURSIVE Pow2(_)
Pow2(n) == IF n = 0 THEN 1 ELSE 2 * Pow2(n - 1)

\* isRetryableError with 401 among the retryable status codes
isRetryableError_m(message) ==
    \E i \in 1..(Len(RETRYABLE_STATUS_CODES) + 1) :
        includes(message, NumToStr((RETRYABLE_STATUS_CODES \o <<401>>)[i]))

isRetryableError(message) ==
    \E i \in 1..Len(RETRYABLE_STATUS_CODES) :
        includes(message, NumToStr(RETRYABLE_STATUS_CODES[i]))

\* the delay computed with the attempt number as exponent
RetryDelay_m(att) == INITIAL_RETRY_DELAY_MS * Pow2(att)

\* const delay = INITIAL_RETRY_DELAY_MS * Math.pow(2, attempt - 1)
RetryDelay(att) == INITIAL_RETRY_DELAY_MS * Pow2(att - 1)

(***************************************************************************)
(* Content blocks, messages and LLM responses.                             *)
(***************************************************************************)
Text(t) == [type |-> "text", text |-> t]
TextNoText == [type |-> "text"]
ToolUse(id, name, input) == [type |-> "tool_use", id |-> id, name |-> name, input |-> input]
ToolUseNoName(id, input) == [type |-> "tool_use", id |-> id, input |-> input]

NoInput == [path |-> "a.ts"]
CompleteInput == [summary |-> "Fixed", pull_request_url |-> "pr/1"]

\* the ids the LLM gives the tool_use blocks of its n-th response
ToolId(n, i) == n * 10 + i

\* the LLM responses the model draws from, n being the number of the response
LLMResponses(n) ==
    { [content |-> <<Text("All done")>>, stopReason |-> "end_turn", reasoning_content |-> ""],
      [content |-> <<>>, stopReason |-> "end_turn", reasoning_content |-> ""],
      [content |-> <<Text("a"), TextNoText, Text("b")>>, stopReason |-> "end_turn",
       reasoning_content |-> "think"],
      [content |-> <<Text(""), ToolUse(ToolId(n, 1), "read_file", NoInput)>>,
       stopReason |-> "end_turn", reasoning_content |-> ""],
      [content |-> <<ToolUse(ToolId(n, 1), "read_file", NoInput)>>,
       stopReason |-> "tool_use", reasoning_content |-> ""],
      [content |-> <<Text("a"), ToolUse(ToolId(n, 1), "read_file", NoInput),
                     ToolUse(ToolId(n, 2), "task_complete", CompleteInput),
                     ToolUse(ToolId(n, 3), "read_file", NoInput)>>,
       stopReason |-> "tool_use", reasoning_content |-> ""],
      [content |-> <<ToolUseNoName(ToolId(n, 1), NoInput),
                     ToolUse(ToolId(n, 2), "read_file", NoInput)>>,
       stopReason |-> "tool_use", reasoning_content |-> "think"],
      [content |-> <<Text("a")>>, stopReason |-> "tool_use", reasoning_content |-> ""],
      [content |-> <<Text("a"), ToolUse(ToolId(n, 1), "read_file", NoInput)>>,
       stopReason |-> "max_tokens", reasoning_content |-> ""],
      [content |-> <<Text("a")>>, stopReason |-> "stop_sequence", reasoning_content |-> ""] }

\* the messages of the errors llmProvider.chat fails with
LLMErrors == {"HTTP 503 overloaded", "HTTP 401 unauthorized", "timeout of 15000ms"}

NoResponse == [content |-> <<>>, stopReason |-> "none", reasoning_content |-> ""]

IsText(block) == block.type = "text"
IsToolUse(block) == block.type = "tool_use"

\* block.text || ''
TextOf(block) == IF "text" \in DOMAIN block THEN block.text ELSE ""

\* toolUse.name || 'unknown'
ToolNameOf(toolUse) ==
    IF "name" \in DOMAIN toolUse /\ toolUse.name # "" THEN toolUse.name ELSE "unknown"

RECURSIVE MapText(_)
MapText(blocks) ==
    IF Len(blocks) = 0 THEN <<>> ELSE <<TextOf(Head(blocks))>> \o MapText(Tail(blocks))

\* the end_turn summary without the fallback string
EndTurnSummary_m(content) == join(MapText(SelectSeq(content, IsText)), "\n")

\* textContent || 'Task completed.'
EndTurnSummary(content) ==
    LET textContent == join(MapText(SelectSeq(content, IsText)), "\n")
    IN  IF textContent # "" THEN textContent ELSE "Task completed."

\* the assistant message pushed for a response
AssistantMessage(response) ==
    IF response.reasoning_content # ""
    THEN [role |-> "assistant", content |-> response.content,
          reasoning_content |-> response.reasoning_content]
    ELSE [role |-> "assistant", content |-> response.content]

(***************************************************************************)
(* executeTool: what a call may do.                                        *)
(***************************************************************************)
ToolReturn(s) == [kind |-> "string", value |-> s]
ToolThrow(m) == [kind |-> "throw", message |-> m]
ToolComplete(input) ==
    [kind |-> "complete", summary |-> input.summary, pullRequestUrl |-> input.pull_request_url]

KnownTools == {"search_code", "list_directory", "read_file", "write_file", "edit_file",
               "delete_file", "create_branch", "commit_changes", "get_git_status",
               "create_pull_request", "run_command"}

executeTool(toolName, toolInput) ==
    IF toolName = "task_complete" THEN {ToolComplete(toolInput)}
    ELSE IF toolName \in KnownTools
         THEN {ToolReturn("contents"), ToolThrow("ENOENT: no such file")}
         ELSE {ToolThrow("Unknown tool: " \o toolName)}

\* the result block naming the tool instead of the tool_use block it answers
ToolResultBlock_m(id, content) ==
    [type |-> "tool_result", tool_use_id |-> 0, content |-> content]

ToolResultBlock(id, content) ==
    [type |-> "tool_result", tool_use_id |-> id, content |-> content]

\* the error block without the is_error flag
ToolErrorBlock_m(id, msg) ==
    [type |-> "tool_result", tool_use_id |-> id, content |-> "Error: " \o msg]

ToolErrorBlock(id, msg) ==
    [type |-> "tool_result", tool_use_id |-> id, content |-> "Error: " \o msg,
     is_error |-> TRUE]

(***************************************************************************)
(* The results of a run.                                                   *)
(***************************************************************************)
NoOutcome == [kind |-> "none"]

EndTurnResult(content, t) ==
    [kind |-> "return", success |-> TRUE, summary |-> EndTurnSummary(content), turns |-> t]

\* the completion result with the end_turn fallback summary
CompleteResult_m(result, t) ==
    [kind |-> "return", success |-> TRUE, summary |-> "Task completed.",
     pullRequestUrl |-> result.pullRequestUrl, turns |-> t]

CompleteResult(result, t) ==
    [kind |-> "return", success |-> TRUE, summary |-> result.summary,
     pullRequestUrl |-> result.pullRequestUrl, turns |-> t]

\* the turn-budget result without its error code
MaxTurnsResult_m(t, mx) ==
    [kind |-> "return", success |-> FALSE,
     summary |-> "Agent reached maximum turns (" \o NumToStr(mx)
                   \o ") without completing the task.",
     turns |-> t, error |-> "AGENT_ERROR"]

MaxTurnsResult(t, mx) ==
    [kind |-> "return", success |-> FALSE,
     summary |-> "Agent reached maximum turns (" \o NumToStr(mx)
                   \o ") without completing the task.",
     turns |-> t, error |-> "MAX_TURNS_EXCEEDED"]

\* the error naming the number of completed turns instead of the current turn
AgentErrorFirst_m(t, msg) ==
    [kind |-> "throw", code |-> "AGENT_ERROR",
     message |-> "Agent failed on turn " \o NumToStr(t - 1) \o ": " \o msg,
     turn |-> t - 1, retries |-> 0, error |-> msg]

\* throw new AgentError(`Agent failed on turn ${turns}: ${errorMessage}`)
AgentErrorFirst(t, msg) ==
    [kind |-> "throw", code |-> "AGENT_ERROR",
     message |-> "Agent failed on turn " \o NumToStr(t) \o ": " \o msg,
     turn |-> t, retries |-> 0, error |-> msg]

\* the error naming the number of calls instead of the number of retries
AgentErrorRetries_m(t, att, msg) ==
    [kind |-> "throw", code |-> "AGENT_ERROR",
     message |-> "Agent failed on turn " \o NumToStr(t) \o " after " \o NumToStr(att + 1)
                   \o " retries: " \o msg,
     turn |-> t, retries |-> att + 1, error |-> msg]

\* throw new AgentError(`Agent failed on turn ${turns} after ${attempt} retries: ...`)
AgentErrorRetries(t, att, msg) ==
    [kind |-> "throw", code |-> "AGENT_ERROR",
     message |-> "Agent failed on turn " \o NumToStr(t) \o " after " \o NumToStr(att)
                   \o " retries: " \o msg,
     turn |-> t, retries |-> att, error |-> msg]

\* the turn number the retry branch reports after its turns--
RetryTurn_m(t) == t + 2

RetryTurn(t) == t + 1

(***************************************************************************)
(* Initial state: the statements before the while loop.                    *)
(***************************************************************************)
TaskDescriptions == {"fix the bug"}

\* the messages runAgentLoop starts with
InitialMessages(task) ==
    <<[role |-> "user", content |-> "Please complete the following task:\n\n" \o task]>>

UserMessage(results) == [role |-> "user", content |-> results]

LoopInit ==
    /\ pc = "while"
    /\ turns = 0
    /\ maxTurns \in 1..MaxTurnsBound
    /\ \E task \in TaskDescriptions : messages = InitialMessages(task)
    /\ toolUseBlocks = <<>>
    /\ toolIdx = 0
    /\ toolResults = <<>>
    /\ attempt = 0
    /\ errorMessage = ""
    /\ outcome = NoOutcome
    /\ processed = 0
    /\ callsThisTurn = 0
    /\ sleeps = <<>>
    /\ respTurns = <<>>
    /\ turnBase = 0
    /\ lastError = ""
    /\ anyFailure = FALSE
    /\ lastResp = NoResponse
    /\ toolRuns = <<>>
    /\ toolFailed = {}
    /\ stopReasons = <<>>
    /\ toolCompleted = FALSE
    /\ progressed = <<>>

(***************************************************************************)
(* The checkpoint store: CheckpointManager (src/agent/checkpoint.ts) over  *)
(* Redis.                                                                  *)
(***************************************************************************)
MaxClockOffset == 1     \* the clock takes the values k and CHECKPOINT_TTL - 1 + k, k in 0..MaxClockOffset

CHECKPOINT_PREFIX == "agent:checkpoint:"
CHECKPOINT_TTL == 7 * 24 * 60 * 60
CHECKPOINT_VERSION == 1

\* the jobId of the run of runAgentLoop
RunJobId == "job-1"

JobIds == {"job-1", "job-2"}

ClockValues == UNION {{k, CHECKPOINT_TTL - 1 + k} : k \in 0..MaxClockOffset}

\* the key that ignores the job id
getCheckpointKey_m(jobId) == CHECKPOINT_PREFIX

getCheckpointKey(jobId) == CHECKPOINT_PREFIX \o jobId

\* key.replace(CHECKPOINT_PREFIX, ''), for the keys that redis.keys(CHECKPOINT_PREFIX + '*') gives
StripPrefix(key) == SubSeq(key, Len(CHECKPOINT_PREFIX) + 1, Len(key))

\* an optional property: <<>> is undefined, <<v>> is the value v
Undefined == <<>>
Some(v) == <<v>>

\* reading a property of an object: undefined when the object has no such property
Get(object, field) == IF field \in DOMAIN object THEN object[field] ELSE Undefined

\* the conversations the checkpoints hold
CheckpointMessages ==
    { <<[role |-> "user", content |-> "Please complete the following task:\n\nfix the bug"]>>,
      <<[role |-> "user", content |-> "Please complete the following task:\n\nfix the bug"],
        AssistantMessage([content |-> <<Text("I will read"),
                                        ToolUse(11, "read_file", NoInput),
                                        ToolUseNoName(12, NoInput)>>,
                          stopReason |-> "tool_use", reasoning_content |-> "think"]),
        UserMessage(<<ToolResultBlock(11, "contents"),
                      ToolErrorBlock(12, "Unknown tool: unknown")>>)>> }

\* the values saveCheckpoint is called with (Omit<AgentCheckpoint, 'lastUpdated' | 'version'>)
CheckpointInputs ==
    { [jobId |-> id, workspaceId |-> "ws-1", taskDescription |-> "fix the bug",
       messages |-> m, turns |-> Len(m) \div 2, maxTurns |-> 10,
       selectedModel |-> IF Len(m) = 1 THEN Undefined ELSE Some("deepseek-reasoner"),
       workspaceConfig |-> [owner |-> "acme", repo |-> "app", defaultBranch |-> "main"]] :
      id \in JobIds, m \in CheckpointMessages }

\* new Date().toISOString()
ISOString(t) == "T" \o NumToStr(t)

\* the stored checkpoint without the version stamp
FullCheckpoint_m(checkpoint, t) == [lastUpdated |-> ISOString(t)] @@ checkpoint

\* { ...checkpoint, lastUpdated: new Date().toISOString(), version: CHECKPOINT_VERSION }
FullCheckpoint(checkpoint, t) ==
    [lastUpdated |-> ISOString(t), version |-> CHECKPOINT_VERSION] @@ checkpoint

\* JSON.stringify of a checkpoint: a property whose value is undefined is left out
JSONStringify(value) ==
    [json |-> [f \in {g \in DOMAIN value : g # "selectedModel" \/ value[g] # Undefined}
                 |-> value[f]]]

\* JSON.parse: the value of a JSON text, a SyntaxError for anything else
JSONParse(text) ==
    IF "json" \in DOMAIN text
    THEN [threw |-> FALSE, value |-> text.json]
    ELSE [threw |-> TRUE]

\* records written to the keys by other writers: checkpoints of another schema
\* version, and data that is not JSON
ForeignData ==
    { JSONStringify([jobId |-> "job-1", messages |-> <<>>, turns |-> 1, maxTurns |-> 10,
                     version |-> 2]),
      [garbage |-> "{not json"] }

\* what a CheckpointManager method gives its caller
Null == [kind |-> "null"]
Void == [kind |-> "void"]
Value(v) == [kind |-> "value", value |-> v]
Returns(result) == [threw |-> FALSE, result |-> result]
Throws == [threw |-> TRUE, result |-> Null]

\* a key exists while it has not expired
Live(store, t, key) == key \in DOMAIN store /\ t < store[key].expireAt

\* the write that keeps the expiry of a key that exists
Setex_m(store, t, key, seconds, data) ==
    [k \in DOMAIN store \cup {key} |->
        IF k = key
        THEN [data |-> data,
              expireAt |-> IF key \in DOMAIN store THEN store[key].expireAt ELSE t + seconds]
        ELSE store[k]]

\* redis.setex(key, seconds, value)
Setex(store, t, key, seconds, data) ==
    [k \in DOMAIN store \cup {key} |->
        IF k = key THEN [data |-> data, expireAt |-> t + seconds] ELSE store[k]]

\* the delete that removes nothing
Del_m(store, key) == store

\* redis.del(key)
Del(store, key) == [k \in DOMAIN store \ {key} |-> store[k]]

\* the version check that accepts every version
VersionOk_m(checkpoint) == TRUE

\* checkpoint.version !== CHECKPOINT_VERSION
VersionOk(checkpoint) ==
    "version" \in DOMAIN checkpoint /\ checkpoint.version = CHECKPOINT_VERSION

\* loadCheckpoint without its try/catch
loadCheckpoint_m(store, t, jobId, fail) ==
    LET key == getCheckpointKey(jobId)
    IN  IF fail THEN Throws
        ELSE IF ~Live(store, t, key) THEN Returns(Null)
        ELSE LET parsed == JSONParse(store[key].data)
             IN  IF parsed.threw THEN Throws
                 ELSE IF ~VersionOk(parsed.value) THEN Returns(Null)
                 ELSE Returns(Value(parsed.value))

\* loadCheckpoint(jobId), fail saying that redis.get throws
loadCheckpoint(store, t, jobId, fail) ==
    LET key == getCheckpointKey(jobId)
    IN  IF fail THEN Returns(Null)
        ELSE IF ~Live(store, t, key) THEN Returns(Null)
        ELSE LET parsed == JSONParse(store[key].data)
             IN  IF parsed.threw THEN Returns(Null)
                 ELSE IF ~VersionOk(parsed.value) THEN Returns(Null)
                 ELSE Returns(Value(parsed.value))

\* hasCheckpoint(jobId) when redis.exists answers: exists === 1
hasCheckpoint(store, t, jobId) == Live(store, t, getCheckpointKey(jobId))

\* getCheckpointMetadata(jobId): null when loadCheckpoint gives null
getCheckpointMetadata(store, t, jobId, fail) ==
    LET checkpoint == loadCheckpoint(store, t, jobId, fail).result
    IN  IF checkpoint = Null THEN Null
        ELSE Value([totalCheckpoints |-> checkpoint.value.turns,
                    lastCheckpointAt |-> checkpoint.value.lastUpdated,
                    canResume |-> TRUE])

\* listActiveCheckpoints(): the keys matching checkpoint:* with the prefix
\* taken off, [] when redis.keys throws (the order of KEYS is not specified)
listActiveCheckpoints(store, t, fail) ==
    IF fail THEN {}
    ELSE {StripPrefix(key) : key \in {k \in DOMAIN store : Live(store, t, k)}}

NoOp == [op |-> "none", jobId |-> "", fail |-> FALSE, threw |-> FALSE, result |-> Void]
NoWrite == [kind |-> "none", overwrote |-> FALSE]

StoreInit ==
    /\ redis = <<>>
    /\ now = 0
    /\ lastOp = NoOp
    /\ written = [id \in JobIds |-> NoWrite]

(***************************************************************************)
(* The job queue and processJob (src/jobs/queue.ts, src/jobs/processor.ts). *)
(***************************************************************************)
\* an optional property of an object, as an optional value
Opt(object, field) == IF field \in DOMAIN object THEN Some(object[field]) ELSE Undefined

CallbackUrl == "https://hook.example/cb"

\* JobData: callback is optional
JobData(task, callback) ==
    [task |-> [description |-> task, priority |-> "normal"],
     organization |-> [id |-> "org-1", name |-> "acme", installationId |-> 7],
     repository |-> [owner |-> "acme", name |-> "app", defaultBranch |-> "main"],
     callback |-> callback]

Callbacks == {Undefined, Some([url |-> CallbackUrl])}

\* the body of a resume request: no callback, or one that replaces the job's
ResumeCallbacks == {Undefined, Some([url |-> "https://hook.example/resumed"])}

\* a job of the queue; started is set when a worker hands the job to processJob
\* and holds the conversation and turn count its runAgentLoop starts with
QueuedJob(data) ==
    [state |-> "waiting", data |-> data, returnvalue |-> Undefined, started |-> Undefined]

ActiveJob(job) ==
    [job EXCEPT !.state = "active",
                !.started = Some([messages |-> InitialMessages(job.data.task.description),
                                  turns |-> 0])]

\* the turn-based percentage without the division by maxTurns
ProgressPercentage_m(turn, mx) == 20 + turn * 70

\* 20 + Math.floor((turn / maxTurns) * 70)
ProgressPercentage(turn, mx) == 20 + (turn * 70) \div mx

\* the percentages the onProgress callback of processJob has reported
TurnPercentages(ts, mx) == [i \in DOMAIN ts |-> ProgressPercentage(ts[i], mx)]

\* the result built from the AgentResult
AgentJobResult(agentResult) ==
    [kind |-> "result", success |-> agentResult.success, message |-> agentResult.summary,
     pullRequestUrl |-> Opt(agentResult, "pullRequestUrl"),
     error |-> Opt(agentResult, "error")]

\* the result of the catch block that loses the thrown message
FailedJobResult_m(errorMsg) ==
    [kind |-> "result", success |-> FALSE, message |-> "Job processing failed",
     pullRequestUrl |-> Undefined, error |-> Some("Job processing failed")]

\* the result of the catch block
FailedJobResult(errorMsg) ==
    [kind |-> "result", success |-> FALSE, message |-> "Job processing failed",
     pullRequestUrl |-> Undefined, error |-> Some(errorMsg)]

\* createWorkspace failures: the WorkspaceError it throws
WorkspaceErrors == {"Failed to create workspace: clone failed"}

\* the error of an rm that fails
RmError == "EBUSY: resource busy or locked"

\* the cleanup without its try/catch
cleanupJobWorkspaces_m(rmFails) ==
    IF rmFails THEN [threw |-> TRUE, message |-> RmError] ELSE [threw |-> FALSE, message |-> ""]

\* cleanupJobWorkspaces(jobId), rmFails saying that rm throws: the error is
\* logged and not passed on
cleanupJobWorkspaces(rmFails) == [threw |-> FALSE, message |-> ""]

\* the payload with the status of a successful job whatever the result
CallbackPayload_m(jobId, res, t) ==
    [jobId |-> jobId, status |-> "completed",
     success |-> res.success, message |-> res.message,
     pullRequestUrl |-> res.pullRequestUrl, error |-> res.error,
     completedAt |-> ISOString(t)]

\* the payload processJob passes to sendCallback
CallbackPayload(jobId, res, t) ==
    [jobId |-> jobId, status |-> IF res.success THEN "completed" ELSE "failed",
     success |-> res.success, message |-> res.message,
     pullRequestUrl |-> res.pullRequestUrl, error |-> res.error,
     completedAt |-> ISOString(t)]

\* what the callback endpoint does with a POST: a 2xx answer, another status, no answer
EndpointOutcomes == {"ok", "status 500", "fetch failed"}

\* sendCallback: false for a non-2xx answer and for a fetch that throws
sendCallback(endpoint) == endpoint = "ok"

MaxJobs == 2            \* jobs ever added to the queue

\* the ids BullMQ gives the jobs, in the order they are added
JobId(n) == "job-" \o NumToStr(n)

NewJobId(queue) == JobId(Cardinality(DOMAIN queue) + 1)

\* jobQueue.add(name, data)
QueueAdd(queue, data) ==
    [id \in DOMAIN queue \cup {NewJobId(queue)} |->
        IF id \in DOMAIN queue THEN queue[id] ELSE QueuedJob(data)]

\* the status that reports a completed job as failed
getJobStatus_m(queue, jobId) ==
    IF jobId \notin DOMAIN queue THEN "unknown"
    ELSE IF queue[jobId].state \in {"waiting", "delayed", "waiting-children"} THEN "queued"
    ELSE IF queue[jobId].state = "active" THEN "active"
    ELSE IF queue[jobId].state = "completed" THEN "failed"
    ELSE IF queue[jobId].state = "failed" THEN "failed"
    ELSE "unknown"

\* getJobStatus(jobId).status
getJobStatus(queue, jobId) ==
    IF jobId \notin DOMAIN queue THEN "unknown"
    ELSE IF queue[jobId].state \in {"waiting", "delayed", "waiting-children"} THEN "queued"
    ELSE IF queue[jobId].state = "active" THEN "active"
    ELSE IF queue[jobId].state = "completed" THEN "completed"
    ELSE IF queue[jobId].state = "failed" THEN "failed"
    ELSE "unknown"

\* the replies of POST /checkpoints/:jobId/resume
Rejected(status, error) == [kind |-> "reply", status |-> status, error |-> error]

Resumed(jobId, newJobId, checkpoint) ==
    [kind |-> "reply", status |-> 200, message |-> "Job resumed from checkpoint",
     originalJobId |-> jobId, newJobId |-> newJobId,
     resumedFrom |-> [turns |-> checkpoint.turns,
                      messageCount |-> Len(checkpoint.messages),
                      lastUpdated |-> checkpoint.lastUpdated]]

\* the data of the job a resume adds
ResumeData(data, callback, jobId, t) ==
    [_resume |-> [fromJobId |-> jobId, resumedAt |-> ISOString(t)]]
        @@ [data EXCEPT !.callback = IF callback # Undefined THEN callback ELSE @]

\* the handler of POST /checkpoints/:jobId/resume: its reply and the queue it leaves;
\* fail says that the redis.get of loadCheckpoint throws
resume(store, t, queue, jobId, callback, fail) ==
    LET checkpoint == loadCheckpoint(store, t, jobId, fail).result
        status == getJobStatus(queue, jobId)
    IN  IF checkpoint = Null
        THEN [reply |-> Rejected(404, "Checkpoint not found"), queue |-> queue]
        ELSE IF status = "active" \/ status = "queued"
        THEN [reply |-> Rejected(400, "Job already running"), queue |-> queue]
        ELSE IF status = "completed"
        THEN [reply |-> Rejected(400, "Job already completed"), queue |-> queue]
        ELSE IF jobId \notin DOMAIN queue
        THEN [reply |-> Rejected(404, "Original job not found"), queue |-> queue]
        ELSE [reply |-> Resumed(jobId, NewJobId(queue), checkpoint.value),
              queue |-> QueueAdd(queue, ResumeData(queue[jobId].data, callback, jobId, t))]

\* the handler of GET /checkpoints/:jobId/can-resume: its reply
canResume(store, t, queue, jobId) ==
    LET has == hasCheckpoint(store, t, jobId)
        status == getJobStatus(queue, jobId)
    IN  [jobId |-> jobId,
         canResume |-> has /\ (status = "failed" \/ status = "unknown"),
         hasCheckpoint |-> has,
         jobStatus |-> status]

\* the return value of a job whose processJob has returned
ReturnValues == {FailedJobResult("Agent failed on turn 1: HTTP 401 unauthorized")}

\* no job in the queue, processJob not running
NoResult == [kind |-> "none"]

JobInit ==
    /\ jobs = <<>>
    /\ jobPc = "idle"
    /\ progress = <<>>
    /\ jobResult = NoResult
    /\ callbacks = <<>>
    /\ cleanups = <<>>

\* a worker has handed the job RunJobId to processJob
InitJob ==
    /\ LoopInit
    /\ StoreInit
    /\ \E callback \in Callbacks :
         jobs = (RunJobId :> ActiveJob(QueuedJob(JobData(CHOOSE task \in TaskDescriptions :
                                    messages = InitialMessages(task), callback))))
    /\ jobPc = "start"
    /\ progress = <<>>
    /\ jobResult = NoResult
    /\ callbacks = <<>>
    /\ cleanups = <<>>

Init == LoopInit /\ StoreInit /\ JobInit

\* the store while no run has started: no operation of the store reads the loop's state
InitStore == Init /\ maxTurns = 1

(***************************************************************************)
(* The while loop.                                                         *)
(***************************************************************************)

\* while (turns < maxTurns) { turns++; onProgress?.(turns, maxTurns); ...
TurnStart ==
    /\ pc = "while"
    /\ UNCHANGED <<storeVars, jobVars>>
    /\ turns < maxTurns
    /\ turns' = turns + 1
    /\ progressed' = Append(progressed, turns + 1)
    /\ turnBase' = turns
    /\ callsThisTurn' = 0
    /\ sleeps' = <<>>
    /\ attempt' = 0
    /\ errorMessage' = ""
    /\ lastError' = ""
    /\ pc' = "chat"
    /\ UNCHANGED <<maxTurns, messages, toolUseBlocks, toolIdx, toolResults, outcome,
                   processed, respTurns, anyFailure, lastResp, toolRuns,
                   toolFailed, stopReasons, toolCompleted>>

\* the loop condition fails: the return after the loop
LoopExit ==
    /\ pc = "while"
    /\ UNCHANGED <<storeVars, jobVars, progressed>>
    /\ ~(turns < maxTurns)
    /\ outcome' = MaxTurnsResult(turns, maxTurns)
    /\ pc' = "done"
    /\ UNCHANGED <<turns, maxTurns, messages, toolUseBlocks, toolIdx, toolResults, attempt,
                   errorMessage, processed, callsThisTurn, sleeps, respTurns,
                   turnBase, lastError, anyFailure, lastResp, toolRuns,
                   toolFailed, stopReasons, toolCompleted>>

\* llmProvider.chat of the try block returns a response, which is processed
\* up to the first tool execution
ChatOk ==
    /\ pc = "chat"
    /\ UNCHANGED <<storeVars, jobVars, progressed>>
    /\ processed < MaxResponses
    /\ \E response \in LLMResponses(processed + 1) :
         LET pushed == Append(messages, AssistantMessage(response))
             blocks == SelectSeq(response.content, IsToolUse)
         IN  /\ lastResp' = response
             /\ stopReasons' = Append(stopReasons, response.stopReason)
             /\ IF response.stopReason = "end_turn"
                THEN /\ messages' = pushed
                     /\ outcome' = EndTurnResult(response.content, turns)
                     /\ pc' = "done"
                     /\ UNCHANGED <<toolUseBlocks, toolIdx, toolResults>>
                ELSE IF response.stopReason = "tool_use"
                THEN /\ toolUseBlocks' = blocks
                     /\ toolResults' = <<>>
                     /\ IF Len(blocks) = 0
                        THEN /\ messages' = Append(pushed, UserMessage(<<>>))
                             /\ toolIdx' = 0
                             /\ pc' = "while"
                        ELSE /\ messages' = pushed
                             /\ toolIdx' = 1
                             /\ pc' = "tools"
                     /\ UNCHANGED outcome
                ELSE /\ messages' = pushed
                     /\ outcome' = MaxTurnsResult(turns, maxTurns)
                     /\ pc' = "done"
                     /\ UNCHANGED <<toolUseBlocks, toolIdx, toolResults>>
    /\ callsThisTurn' = callsThisTurn + 1
    /\ processed' = processed + 1
    /\ respTurns' = Append(respTurns, turns)
    /\ toolRuns' = <<>>
    /\ toolFailed' = {}
    /\ UNCHANGED toolCompleted
    /\ UNCHANGED <<turns, maxTurns, attempt, errorMessage, sleeps, turnBase, lastError,
                   anyFailure>>

\* llmProvider.chat of the try block throws: the catch block up to the first sleep
ChatFail ==
    /\ pc = "chat"
    /\ UNCHANGED <<storeVars, jobVars, progressed>>
    /\ \E msg \in LLMErrors :
         /\ errorMessage' = msg
         /\ lastError' = msg
         /\ IF isRetryableError(msg)
            THEN /\ attempt' = 1
                 /\ pc' = "sleep"
                 /\ UNCHANGED outcome
            ELSE /\ outcome' = AgentErrorFirst(turns, msg)
                 /\ pc' = "done"
                 /\ UNCHANGED attempt
    /\ callsThisTurn' = callsThisTurn + 1
    /\ anyFailure' = TRUE
    /\ UNCHANGED <<turns, maxTurns, messages, toolUseBlocks, toolIdx, toolResults, processed,
                   sleeps, respTurns, turnBase, lastResp, toolRuns,
                   toolFailed, stopReasons, toolCompleted>>

\* one iteration of for (const toolUse of toolUseBlocks) in the try block;
\* the last iteration is followed by messages.push of the tool results
ExecTool ==
    /\ pc = "tools"
    /\ UNCHANGED <<storeVars, jobVars, progressed>>
    /\ LET toolUse == toolUseBlocks[toolIdx]
       IN  /\ toolRuns' = Append(toolRuns, toolUse.id)
           /\ \E result \in executeTool(ToolNameOf(toolUse), toolUse.input) :
                IF result.kind = "complete"
                THEN /\ outcome' = CompleteResult(result, turns)
                     /\ pc' = "done"
                     /\ toolCompleted' = TRUE
                     /\ UNCHANGED <<messages, toolIdx, toolResults, toolFailed>>
                ELSE LET block == IF result.kind = "string"
                                  THEN ToolResultBlock(toolUse.id, result.value)
                                  ELSE ToolErrorBlock(toolUse.id, result.message)
                         results == Append(toolResults, block)
                     IN  /\ toolResults' = results
                         /\ toolFailed' = IF result.kind = "throw"
                                          THEN toolFailed \cup
                                                 {[id |-> toolUse.id, message |-> result.message]}
                                          ELSE toolFailed
                         /\ IF toolIdx = Len(toolUseBlocks)
                            THEN /\ messages' = Append(messages, UserMessage(results))
                                 /\ pc' = "while"
                                 /\ UNCHANGED toolIdx
                            ELSE /\ toolIdx' = toolIdx + 1
                                 /\ UNCHANGED <<messages, pc>>
                         /\ UNCHANGED <<outcome, toolCompleted>>
    /\ UNCHANGED <<stopReasons, turns, maxTurns, toolUseBlocks, attempt, errorMessage, processed,
                   callsThisTurn, sleeps, respTurns, turnBase, lastError, anyFailure, lastResp>>

(***************************************************************************)
(* The retry loop of the catch block.                                      *)
(***************************************************************************)
\* await sleep(delay)
Sleep ==
    /\ pc = "sleep"
    /\ UNCHANGED <<storeVars, jobVars, progressed>>
    /\ sleeps' = Append(sleeps, RetryDelay(attempt))
    /\ pc' = "retryChat"
    /\ UNCHANGED <<turns, maxTurns, messages, toolUseBlocks, toolIdx, toolResults, attempt,
                   errorMessage, outcome, processed, callsThisTurn, respTurns,
                   turnBase, lastError, anyFailure, lastResp, toolRuns,
                   toolFailed, stopReasons, toolCompleted>>

\* llmProvider.chat of the retry loop returns a response: turns--, and the
\* response is processed inline up to the first tool execution
RetryChatOk ==
    /\ pc = "retryChat"
    /\ UNCHANGED <<storeVars, jobVars, progressed>>
    /\ processed < MaxResponses
    /\ turns' = turns - 1
    /\ \E response \in LLMResponses(processed + 1) :
         LET pushed == Append(messages, AssistantMessage(response))
             blocks == SelectSeq(response.content, IsToolUse)
         IN  /\ lastResp' = response
             /\ stopReasons' = Append(stopReasons, response.stopReason)
             /\ IF response.stopReason = "end_turn"
                THEN /\ messages' = pushed
                     /\ outcome' = EndTurnResult(response.content, RetryTurn(turns'))
                     /\ pc' = "done"
                     /\ UNCHANGED <<toolUseBlocks, toolIdx, toolResults>>
                ELSE IF response.stopReason = "tool_use"
                THEN /\ toolUseBlocks' = blocks
                     /\ toolResults' = <<>>
                     /\ IF Len(blocks) = 0
                        THEN /\ messages' = Append(pushed, UserMessage(<<>>))
                             /\ toolIdx' = 0
                             /\ pc' = "while"
                        ELSE /\ messages' = pushed
                             /\ toolIdx' = 1
                             /\ pc' = "retryTools"
                     /\ UNCHANGED outcome
                ELSE \* neither branch is taken: retried = true; break; continue
                     /\ messages' = pushed
                     /\ pc' = "while"
                     /\ UNCHANGED <<toolUseBlocks, toolIdx, toolResults, outcome>>
    /\ callsThisTurn' = callsThisTurn + 1
    /\ processed' = processed + 1
    /\ respTurns' = Append(respTurns, turns)
    /\ toolRuns' = <<>>
    /\ toolFailed' = {}
    /\ UNCHANGED toolCompleted
    /\ UNCHANGED <<maxTurns, attempt, errorMessage, sleeps, turnBase, lastError, anyFailure>>

\* llmProvider.chat of the retry loop throws
RetryChatFail ==
    /\ pc = "retryChat"
    /\ UNCHANGED <<storeVars, jobVars, progressed>>
    /\ \E msg \in LLMErrors :
         /\ lastError' = msg
         /\ IF attempt = MAX_RETRIES \/ ~isRetryableError(msg)
            THEN /\ outcome' = AgentErrorRetries(turns, attempt, msg)
                 /\ pc' = "done"
                 /\ UNCHANGED attempt
            ELSE /\ attempt' = attempt + 1
                 /\ pc' = "sleep"
                 /\ UNCHANGED outcome
    /\ callsThisTurn' = callsThisTurn + 1
    /\ anyFailure' = TRUE
    /\ UNCHANGED <<turns, maxTurns, messages, toolUseBlocks, toolIdx, toolResults,
                   errorMessage, processed, sleeps, respTurns, turnBase, lastResp, toolRuns,
                   toolFailed, stopReasons, toolCompleted>>

\* one iteration of the for..of loop of the retry branch; the last iteration
\* is followed by messages.push, retried = true, break and continue
RetryExecTool ==
    /\ pc = "retryTools"
    /\ UNCHANGED <<storeVars, jobVars, progressed>>
    /\ LET toolUse == toolUseBlocks[toolIdx]
       IN  /\ toolRuns' = Append(toolRuns, toolUse.id)
           /\ \E result \in executeTool(ToolNameOf(toolUse), toolUse.input) :
                IF result.kind = "complete"
                THEN /\ outcome' = CompleteResult(result, RetryTurn(turns))
                     /\ pc' = "done"
                     /\ toolCompleted' = TRUE
                     /\ UNCHANGED <<messages, toolIdx, toolResults, toolFailed>>
                ELSE LET block == IF result.kind = "string"
                                  THEN ToolResultBlock(toolUse.id, result.value)
                                  ELSE ToolErrorBlock(toolUse.id, result.message)
                         results == Append(toolResults, block)
                     IN  /\ toolResults' = results
                         /\ toolFailed' = IF result.kind = "throw"
                                          THEN toolFailed \cup
                                                 {[id |-> toolUse.id, message |-> result.message]}
                                          ELSE toolFailed
                         /\ IF toolIdx = Len(toolUseBlocks)
                            THEN /\ messages' = Append(messages, UserMessage(results))
                                 /\ pc' = "while"
                                 /\ UNCHANGED toolIdx
                            ELSE /\ toolIdx' = toolIdx + 1
                                 /\ UNCHANGED <<messages, pc>>
                         /\ UNCHANGED <<outcome, toolCompleted>>
    /\ UNCHANGED <<stopReasons, turns, maxTurns, toolUseBlocks, attempt, errorMessage, processed,
                   callsThisTurn, sleeps, respTurns, turnBase, lastError, anyFailure, lastResp>>

(***************************************************************************)
(* The operations of CheckpointManager, the other writers of the keys and  *)
(* the clock.                                                              *)
(***************************************************************************)
\* saveCheckpoint(checkpoint); fail says that redis.setex throws
SaveCheckpoint ==
    \E checkpoint \in CheckpointInputs, fail \in BOOLEAN :
        LET key == getCheckpointKey(checkpoint.jobId)
            fullCheckpoint == FullCheckpoint(checkpoint, now)
        IN  /\ redis' = IF fail THEN redis
                        ELSE Setex(redis, now, key, CHECKPOINT_TTL, JSONStringify(fullCheckpoint))
            /\ written' = IF fail THEN written
                          ELSE [written EXCEPT ![checkpoint.jobId] =
                                  [kind |-> "save", input |-> checkpoint, at |-> now,
                                   overwrote |-> /\ @.kind = "save"
                                                 /\ @.input # checkpoint
                                                 /\ Live(redis, now, key)]]
            /\ lastOp' = [op |-> "save", jobId |-> checkpoint.jobId, fail |-> fail,
                          threw |-> FALSE, result |-> Void]
            /\ UNCHANGED <<now, loopVars, jobVars>>

\* loadCheckpoint(jobId)
LoadCheckpoint ==
    \E jobId \in JobIds, fail \in BOOLEAN :
        LET r == loadCheckpoint(redis, now, jobId, fail)
        IN  /\ lastOp' = [op |-> "load", jobId |-> jobId, fail |-> fail,
                          threw |-> r.threw, result |-> r.result]
            /\ UNCHANGED <<redis, now, written, loopVars, jobVars>>

\* deleteCheckpoint(jobId); fail says that redis.del throws
DeleteCheckpoint ==
    \E jobId \in JobIds, fail \in BOOLEAN :
        /\ redis' = IF fail THEN redis ELSE Del(redis, getCheckpointKey(jobId))
        /\ written' = IF fail THEN written
                      ELSE [written EXCEPT ![jobId] = [kind |-> "deleted", overwrote |-> FALSE]]
        /\ lastOp' = [op |-> "delete", jobId |-> jobId, fail |-> fail,
                      threw |-> FALSE, result |-> Void]
        /\ UNCHANGED <<now, loopVars, jobVars>>

\* hasCheckpoint(jobId): redis.exists is not guarded by a try/catch
HasCheckpoint ==
    \E jobId \in JobIds, fail \in BOOLEAN :
        /\ lastOp' = [op |-> "has", jobId |-> jobId, fail |-> fail, threw |-> fail,
                      result |-> IF fail THEN Null
                                 ELSE Value(Live(redis, now, getCheckpointKey(jobId)))]
        /\ UNCHANGED <<redis, now, written, loopVars, jobVars>>

\* a key is written by another writer (another schema version, or unreadable data)
ForeignWrite ==
    \E jobId \in JobIds, data \in ForeignData :
        /\ redis' = Setex(redis, now, getCheckpointKey(jobId), CHECKPOINT_TTL, data)
        /\ written' = [written EXCEPT ![jobId] = [kind |-> "foreign", overwrote |-> FALSE]]
        /\ lastOp' = NoOp
        /\ UNCHANGED <<now, loopVars, jobVars>>

\* time passes; Redis drops the keys that have expired
Advance ==
    \E t \in ClockValues :
        /\ t > now
        /\ now' = t
        /\ redis' = [k \in {key \in DOMAIN redis : Live(redis, t, key)} |-> redis[k]]
        /\ lastOp' = NoOp
        /\ UNCHANGED <<written, loopVars, jobVars>>

NextStore ==
    \/ SaveCheckpoint
    \/ LoadCheckpoint
    \/ DeleteCheckpoint
    \/ HasCheckpoint
    \/ ForeignWrite
    \/ Advance

SpecStore == InitStore /\ [][NextStore]_vars

(***************************************************************************)
(* processJob.                                                             *)
(***************************************************************************)
\* await job.updateProgress({ percentage: 10 })
JobBegin ==
    /\ jobPc = "start"
    /\ progress' = Append(progress, 10)
    /\ jobPc' = "workspace"
    /\ UNCHANGED <<jobs, jobResult, callbacks, cleanups, loopVars, storeVars>>

\* createWorkspace, then updateProgress(20); a throw goes to the catch block
CreateWorkspace ==
    /\ jobPc = "workspace"
    /\ \/ /\ progress' = Append(progress, 20)
          /\ jobPc' = "agent"
          /\ UNCHANGED jobResult
       \/ \E error \in WorkspaceErrors :
            /\ jobResult' = FailedJobResult(error)
            /\ jobPc' = "finish"
            /\ UNCHANGED progress
    /\ UNCHANGED <<jobs, callbacks, cleanups, loopVars, storeVars>>

\* runAgentLoop is running: onProgress reports through TurnPercentages
AgentStep ==
    /\ jobPc = "agent"
    /\ \/ TurnStart
       \/ LoopExit
       \/ ChatOk
       \/ ChatFail
       \/ ExecTool
       \/ Sleep
       \/ RetryChatOk
       \/ RetryChatFail
       \/ RetryExecTool

\* runAgentLoop has returned or thrown: its locals are gone; what is left of the
\* run is how it ended and what it passed to onProgress
LoopFrameGone ==
    /\ turns' = 0
    /\ messages' = <<>>
    /\ toolUseBlocks' = <<>>
    /\ toolIdx' = 0
    /\ toolResults' = <<>>
    /\ attempt' = 0
    /\ errorMessage' = ""
    /\ processed' = 0
    /\ callsThisTurn' = 0
    /\ sleeps' = <<>>
    /\ respTurns' = <<>>
    /\ turnBase' = 0
    /\ anyFailure' = FALSE
    /\ lastResp' = NoResponse
    /\ toolRuns' = <<>>
    /\ toolFailed' = {}
    /\ stopReasons' = <<>>
    /\ toolCompleted' = FALSE
    /\ UNCHANGED <<pc, maxTurns, outcome, lastError, progressed>>

\* runAgentLoop returned: updateProgress(90), the result, the finally block
\* (an error thrown by the finally block would reach the catch block)
AgentReturn ==
    /\ jobPc = "agent"
    /\ outcome.kind = "return"
    /\ progress' = (progress \o TurnPercentages(progressed, maxTurns)) \o <<90>>
    /\ \E rmFails \in BOOLEAN :
         LET cleanup == cleanupJobWorkspaces(rmFails)
         IN  /\ cleanups' = Append(cleanups, [jobId |-> RunJobId, rmFailed |-> rmFails])
             /\ jobResult' = IF cleanup.threw THEN FailedJobResult(cleanup.message)
                              ELSE AgentJobResult(outcome)
    /\ jobPc' = "finish"
    /\ LoopFrameGone
    /\ UNCHANGED <<jobs, callbacks, storeVars>>

\* runAgentLoop threw: the finally block, then the catch block (with the error
\* of the finally block, had it thrown one)
AgentThrow ==
    /\ jobPc = "agent"
    /\ outcome.kind = "throw"
    /\ progress' = progress \o TurnPercentages(progressed, maxTurns)
    /\ \E rmFails \in BOOLEAN :
         LET cleanup == cleanupJobWorkspaces(rmFails)
         IN  /\ cleanups' = Append(cleanups, [jobId |-> RunJobId, rmFailed |-> rmFails])
             /\ jobResult' = IF cleanup.threw THEN FailedJobResult(cleanup.message)
                              ELSE FailedJobResult(outcome.message)
    /\ jobPc' = "finish"
    /\ LoopFrameGone
    /\ UNCHANGED <<jobs, callbacks, storeVars>>

\* await job.updateProgress({ percentage: 100 })
JobFinish ==
    /\ jobPc = "finish"
    /\ progress' = Append(progress, 100)
    /\ jobPc' = "callback"
    /\ UNCHANGED <<jobs, jobResult, callbacks, cleanups, loopVars, storeVars>>

\* if (callback?.url) await sendCallback(...)
SendCallback ==
    /\ jobPc = "callback"
    /\ LET callback == jobs[RunJobId].data.callback
       IN  IF callback # Undefined
           THEN \E endpoint \in EndpointOutcomes :
                    callbacks' = Append(callbacks,
                                        [url |-> callback[1].url,
                                         payload |-> CallbackPayload(RunJobId, jobResult, now),
                                         progress |-> progress,
                                         sent |-> sendCallback(endpoint)])
           ELSE UNCHANGED callbacks
    /\ jobPc' = "return"
    /\ UNCHANGED <<jobs, progress, jobResult, cleanups, loopVars, storeVars>>

\* return result: the worker moves the job to completed with the result as its return value
JobReturn ==
    /\ jobPc = "return"
    /\ jobs' = [jobs EXCEPT ![RunJobId].state = "completed",
                            ![RunJobId].returnvalue = Some(jobResult)]
    /\ jobPc' = "returned"
    /\ UNCHANGED <<progress, jobResult, callbacks, cleanups, loopVars, storeVars>>

NextJob ==
    \/ JobBegin
    \/ CreateWorkspace
    \/ AgentStep
    \/ AgentReturn
    \/ AgentThrow
    \/ JobFinish
    \/ SendCallback
    \/ JobReturn

SpecJob == InitJob /\ [][NextJob]_vars

(***************************************************************************)
(* The queue, its worker, and the resume route.                            *)
(***************************************************************************)
\* addJob(data)
AddJob ==
    /\ Cardinality(DOMAIN jobs) < MaxJobs
    /\ \E task \in TaskDescriptions :
         jobs' = QueueAdd(jobs, JobData(task, Some([url |-> CallbackUrl])))
    /\ lastOp' = NoOp
    /\ UNCHANGED <<redis, now, written, jobPc, progress, jobResult, callbacks, cleanups,
                   loopVars>>

\* the worker takes a waiting job and calls processJob, which calls runAgentLoop
WorkerStart ==
    \E id \in DOMAIN jobs :
        /\ jobs[id].state = "waiting"
        /\ jobs' = [jobs EXCEPT ![id] = ActiveJob(@)]
        /\ lastOp' = NoOp
        /\ UNCHANGED <<redis, now, written, jobPc, progress, jobResult, callbacks, cleanups,
                       loopVars>>

\* processJob returned: the job is completed
WorkerCompleted ==
    \E id \in DOMAIN jobs, value \in ReturnValues :
        /\ jobs[id].state = "active"
        /\ jobs' = [jobs EXCEPT ![id].state = "completed", ![id].returnvalue = Some(value)]
        /\ lastOp' = NoOp
        /\ UNCHANGED <<redis, now, written, jobPc, progress, jobResult, callbacks, cleanups,
                       loopVars>>

\* the job's last attempt ended with processJob rejecting or the job stalled: the job is failed
WorkerFailed ==
    \E id \in DOMAIN jobs :
        /\ jobs[id].state = "active"
        /\ jobs' = [jobs EXCEPT ![id].state = "failed"]
        /\ lastOp' = NoOp
        /\ UNCHANGED <<redis, now, written, jobPc, progress, jobResult, callbacks, cleanups,
                       loopVars>>

\* the resume that deletes the checkpoint it resumed from
Resume_m ==
    \E jobId \in JobIds, callback \in ResumeCallbacks, fail \in BOOLEAN :
        LET r == resume(redis, now, jobs, jobId, callback, fail)
        IN  /\ r.reply.status = 200 => Cardinality(DOMAIN jobs) < MaxJobs
            /\ jobs' = r.queue
            /\ lastOp' = [op |-> "resume", jobId |-> jobId, fail |-> fail, threw |-> FALSE,
                          result |-> r.reply]
            /\ redis' = IF r.reply.status = 200 THEN Del(redis, getCheckpointKey(jobId))
                        ELSE redis
            /\ UNCHANGED <<now, written, jobPc, progress, jobResult, callbacks,
                           cleanups, loopVars>>

\* POST /checkpoints/:jobId/resume
Resume ==
    \E jobId \in JobIds, callback \in ResumeCallbacks, fail \in BOOLEAN :
        LET r == resume(redis, now, jobs, jobId, callback, fail)
        IN  /\ r.reply.status = 200 => Cardinality(DOMAIN jobs) < MaxJobs
            /\ jobs' = r.queue
            /\ lastOp' = [op |-> "resume", jobId |-> jobId, fail |-> fail, threw |-> FALSE,
                          result |-> r.reply]
            /\ UNCHANGED <<redis, now, written, jobPc, progress, jobResult, callbacks,
                           cleanups, loopVars>>

NextResume ==
    \/ AddJob
    \/ WorkerStart
    \/ WorkerCompleted
    \/ WorkerFailed
    \/ SaveCheckpoint
    \/ ForeignWrite
    \/ Resume

SpecResume == InitStore /\ [][NextResume]_vars

Next ==
    \/ TurnStart
    \/ LoopExit
    \/ ChatOk
    \/ ChatFail
    \/ ExecTool
    \/ Sleep
    \/ RetryChatOk
    \/ RetryChatFail
    \/ RetryExecTool

Spec == Init /\ [][Next]_vars

TypeOK ==
    /\ pc \in {"while", "chat", "tools", "sleep", "retryChat", "retryTools", "done"}
    /\ turns \in -1..maxTurns
    /\ attempt \in 0..MAX_RETRIES
    /\ outcome.kind \in {"none", "return", "throw"}
    /\ (pc = "done") = (outcome.kind # "none")

(***************************************************************************)
(* Properties of the turn loop.                                            *)
(***************************************************************************)
Done == pc = "done"
Returned == outcome.kind = "return"
Threw == outcome.kind = "throw"
Last(seq) == seq[Len(seq)]

\* the message contains one of the status markers of the retry policy
HasMarker(message) ==
    \E marker \in {"429", "500", "502", "503", "504", "529"} : includes(message, marker)

\* the step is a failed llmProvider.chat call
LLMFailStep == callsThisTurn' = callsThisTurn + 1 /\ processed' = processed

\* the step is a call of executeTool whose handler throws
ToolFailStep == toolFailed' \ toolFailed # {}

\* C1: a run never processes more than maxTurns successfully received LLM
\* responses, whatever mix of retryable failures and successes the LLM produces.
C1_AtMostMaxTurnsResponses == processed <= maxTurns

\* C2: the turn counter increases by exactly 1 for every successfully processed
\* LLM response, a response obtained on a retry attempt included: the i-th
\* processed response carries turn number i, so no two consecutive responses
\* carry the same turn number.
C2_TurnPerResponse == \A i \in DOMAIN respTurns : respTurns[i] = i

\* C3: whenever runAgentLoop returns a result, result.turns equals the number
\* of LLM responses successfully received and processed in the run.
C3_ResultTurnsIsProcessed == Returned => outcome.turns = processed

\* C4 (as stated): when every LLM call of a turn fails with a retryable error,
\* the loop has made exactly MAX_RETRIES call attempts in total for that turn
\* when it fails fatally.
C4_ExactlyMaxRetriesCalls ==
    (Threw /\ HasMarker(outcome.error)) => callsThisTurn = MAX_RETRIES

\* C4 (amended): when every LLM call of a turn fails with a retryable error, the
\* loop makes exactly 1 + MAX_RETRIES call attempts for that turn (the first call
\* and MAX_RETRIES retries) before failing fatally, and the wait before retry
\* attempt k is INITIAL_RETRY_DELAY_MS * 2^(k-1).
C4_RetryBound ==
    /\ (Threw /\ HasMarker(outcome.error)) =>
          /\ callsThisTurn = 1 + MAX_RETRIES
          /\ outcome.retries = MAX_RETRIES
          /\ Len(sleeps) = MAX_RETRIES
    /\ \A k \in DOMAIN sleeps : sleeps[k] = INITIAL_RETRY_DELAY_MS * 2^(k - 1)
    /\ Len(sleeps) <= MAX_RETRIES
    /\ pc = "retryChat" => (Len(sleeps) = attempt /\ callsThisTurn = attempt)

C4_Witness ==
    /\ Threw
    /\ HasMarker(outcome.error)
    /\ sleeps = <<10000, 20000, 40000, 80000, 160000>>

\* C5: an LLM failure whose message contains none of the markers is never
\* retried, on a first call or on a retry attempt: the run fails fatally at once,
\* with no sleep and no LLM call after it; a failure is followed by a backoff
\* sleep only if its message contains a marker; nothing happens after the run
\* has ended.
C5_NonRetryableNeverRetried ==
    [][ /\ pc # "done"
        /\ LLMFailStep =>
             /\ ~HasMarker(lastError') =>
                   (pc' = "done" /\ outcome'.kind = "throw" /\ sleeps' = sleeps
                    /\ outcome'.error = lastError')
             /\ pc' = "sleep" => HasMarker(lastError')
             /\ pc' \in {"sleep", "done"}
        /\ pc' \in {"sleep", "retryChat"} => HasMarker(errorMessage')
      ]_vars

C5_Witness ==
    /\ Threw
    /\ ~HasMarker(outcome.error)
    /\ outcome.retries = 2
    /\ Len(sleeps) = 2

\* C6: if the LLM call of a turn fails with a retryable error on the first k
\* attempts (1 <= k <= 5) and the next attempt succeeds with stop reason
\* end_turn, the run returns success=true and the turn number in the result is
\* the turn counter before the turn plus exactly 1.
C6_RetryThenEndTurn ==
    (Done /\ attempt >= 1 /\ lastResp.stopReason = "end_turn") =>
        /\ Returned
        /\ outcome.success
        /\ outcome.turns = turnBase + 1
        /\ callsThisTurn = attempt + 1
        /\ attempt \in 1..MAX_RETRIES

C6_Witness ==
    /\ Returned
    /\ outcome.success
    /\ attempt = 2
    /\ callsThisTurn = 3
    /\ lastResp.stopReason = "end_turn"

\* C7: if every LLM response has stop reason tool_use, no executed tool reports
\* completion and no LLM call fails, the loop makes exactly maxTurns LLM calls
\* (without a failed call every call is a processed response) and returns
\* success=false, error = 'MAX_TURNS_EXCEEDED', turns = maxTurns.
C7_AllToolUseExhausts ==
    LET allToolUse == \A i \in DOMAIN stopReasons : stopReasons[i] = "tool_use"
    IN  /\ (Done /\ ~anyFailure /\ ~toolCompleted /\ allToolUse) =>
              /\ Returned
              /\ outcome.success = FALSE
              /\ outcome.error = "MAX_TURNS_EXCEEDED"
              /\ outcome.turns = maxTurns
              /\ processed = maxTurns
        /\ (~Done /\ ~anyFailure /\ allToolUse) =>
              /\ processed <= maxTurns
              /\ pc = "while" => processed = turns
              /\ pc = "chat" => processed = turns - 1

C7_Witness ==
    /\ Done
    /\ ~anyFailure
    /\ ~toolCompleted
    /\ stopReasons = <<"tool_use", "tool_use">>
    /\ maxTurns = 2

\* the text blocks among the first k blocks of a content, in emission order
RECURSIVE C8_Texts(_, _)
C8_Texts(content, k) ==
    IF k = 0 THEN <<>>
    ELSE IF content[k].type = "text"
         THEN Append(C8_Texts(content, k - 1),
                     IF "text" \in DOMAIN content[k] THEN content[k].text ELSE "")
         ELSE C8_Texts(content, k - 1)

\* the first k texts joined by newlines
RECURSIVE C8_Joined(_, _)
C8_Joined(texts, k) ==
    IF k = 0 THEN ""
    ELSE IF k = 1 THEN texts[1]
    ELSE C8_Joined(texts, k - 1) \o "\n" \o texts[k]

\* C8: when an LLM call succeeds with stop reason end_turn the run ends at once
\* with success=true, no tool is executed for that response, the summary is the
\* response's text blocks joined in emission order (or 'Task completed.' when
\* that is empty), and turns is the number of the current turn.
C8_EndTurnEndsRun ==
    lastResp.stopReason = "end_turn" =>
        LET texts == C8_Texts(lastResp.content, Len(lastResp.content))
            joined == C8_Joined(texts, Len(texts))
        IN  /\ Done
            /\ Returned
            /\ outcome.success
            /\ toolRuns = <<>>
            /\ outcome.summary = (IF joined = "" THEN "Task completed." ELSE joined)
            /\ outcome.turns = Last(respTurns)
            /\ Last(messages).role = "assistant"
            /\ Last(messages).content = lastResp.content

C8_Witness ==
    /\ Returned
    /\ lastResp.stopReason = "end_turn"
    /\ lastResp.content = <<Text(""), ToolUse(ToolId(1, 1), "read_file", NoInput)>>
    /\ outcome.summary = "Task completed."
    /\ outcome.turns = 1

\* the tool_use block of message i has exactly one tool_result block with its
\* id in message i+1
C9_Paired(i, block) ==
    /\ i + 1 <= Len(messages)
    /\ LET next == messages[i + 1].content
       IN  Cardinality({j \in DOMAIN next :
                           /\ next[j].type = "tool_result"
                           /\ next[j].tool_use_id = block.id}) = 1

\* C9: whenever the loop issues an LLM call, each tool_use block of every
\* assistant message of the conversation has exactly one tool_result block with
\* the matching tool_use_id in the message immediately following it.
C9_ToolPairing ==
    pc \in {"chat", "retryChat"} =>
        \A i \in DOMAIN messages :
            messages[i].role = "assistant" =>
                \A b \in DOMAIN messages[i].content :
                    messages[i].content[b].type = "tool_use" =>
                        C9_Paired(i, messages[i].content[b])

\* the error block the claim describes for a failed tool call
C10_ErrorBlock(failed) ==
    [type |-> "tool_result", tool_use_id |-> failed.id,
     content |-> "Error: " \o failed.message, is_error |-> TRUE]

\* C10: a failing tool handler never terminates the run: the failure appends a
\* tool_result block with is_error=true and content 'Error: ' + message, the
\* remaining tool calls of the batch are still executed (up to one that reports
\* completion), and every LLM call after the batch has that block in the last
\* message of the conversation.
C10_ToolFailureRecovered ==
    /\ [][ ToolFailStep =>
             /\ outcome' = NoOutcome
             /\ pc' \in {"tools", "retryTools", "while"}
             /\ Len(toolResults') = Len(toolResults) + 1
             /\ \E failed \in toolFailed' \ toolFailed :
                  Last(toolResults') = C10_ErrorBlock(failed)
             /\ pc' = "while" <=> toolIdx = Len(toolUseBlocks)
         ]_vars
    /\ [](\A failed \in toolFailed :
            /\ ~Threw \/ anyFailure
            /\ pc \in {"while", "chat", "sleep", "retryChat"} =>
                 /\ Len(toolRuns) = Len(toolUseBlocks)
                 /\ \A i \in DOMAIN toolRuns : toolRuns[i] = toolUseBlocks[i].id
                 /\ Last(messages).role = "user"
                 /\ \E j \in DOMAIN Last(messages).content :
                      Last(messages).content[j] = C10_ErrorBlock(failed))

C10_Witness ==
    /\ pc = "chat"
    /\ Len(toolUseBlocks) = 2
    /\ \E failed \in toolFailed :
         /\ failed.id = toolUseBlocks[1].id
         /\ failed.message = "Unknown tool: unknown"
    /\ Len(Last(messages).content) = 2

\* C11: when a tool execution of a batch reports completion the loop exits at
\* once with success=true and the handler-supplied summary and pull-request URL:
\* no later tool call of the batch is executed, no tool-result message is
\* appended, and nothing (no LLM call) happens afterwards.
C11_CompletionExitsAtOnce ==
    /\ [](toolCompleted =>
            LET toolUse == toolUseBlocks[toolIdx]
            IN  /\ Done
                /\ Returned
                /\ outcome.success
                /\ toolUse.name = "task_complete"
                /\ outcome.summary = toolUse.input.summary
                /\ outcome.pullRequestUrl = toolUse.input.pull_request_url
                /\ outcome.turns = Last(respTurns)
                /\ Len(toolRuns) = toolIdx
                /\ Last(toolRuns) = toolUse.id
                /\ \A i \in DOMAIN toolRuns : toolRuns[i] = toolUseBlocks[i].id
                /\ Last(messages).role = "assistant"
                /\ Last(messages).content = lastResp.content)
    /\ [][~toolCompleted]_vars

C11_Witness ==
    /\ toolCompleted
    /\ Len(toolUseBlocks) = 3
    /\ Len(toolRuns) = 2
    /\ outcome.summary = "Fixed"
    /\ outcome.pullRequestUrl = "pr/1"

\* C12: an LLM response whose stop reason is neither end_turn nor tool_use ends
\* the run at once with a result of success=false, on the first call of a turn
\* or on a retry attempt.
C12_UnexpectedStopEndsRun ==
    (stopReasons # <<>> /\ Last(stopReasons) \notin {"end_turn", "tool_use"}) =>
        (Done /\ Returned /\ outcome.success = FALSE)

\* C13: error = 'MAX_TURNS_EXCEEDED' is returned only when the turn counter has
\* reached maxTurns, never for a run that stopped for another reason.
C13_MaxTurnsOnlyWhenExhausted ==
    (Returned /\ ~outcome.success /\ outcome.error = "MAX_TURNS_EXCEEDED") =>
        (turns = maxTurns /\ outcome.turns = maxTurns)

StoredCheckpoint(jobId) == loadCheckpoint(redis, now, jobId, FALSE).result

\* what hasCheckpoint(jobId) gives when Redis answers
CheckpointExists(jobId) == Live(redis, now, getCheckpointKey(jobId))

\* C15: once the assistant message of a turn is appended, and until the next
\* LLM response, a checkpoint of the run is stored and it holds the
\* conversation as it stands (after the assistant message while the tools run,
\* after the tool results once they are appended).
C15_CheckpointAfterEachAppend ==
    (pc \in {"tools", "retryTools"} \/ (pc = "while" /\ respTurns # <<>>)) =>
        /\ StoredCheckpoint(RunJobId).kind = "value"
        /\ StoredCheckpoint(RunJobId).value.messages = messages

\* C16: after the run has ended, a checkpoint exists for its job id exactly
\* when the run did not succeed.
C16_CheckpointIffNotSucceeded ==
    Done => (CheckpointExists(RunJobId) <=> ~(Returned /\ outcome.success))

(***************************************************************************)
(* C17 - C20: CheckpointManager.                                           *)
(***************************************************************************)
\* the latest write of the job id's key was a successful save that has not expired
SaveStands(id) == written[id].kind = "save" /\ now < written[id].at + CHECKPOINT_TTL

\* the latest call was loadCheckpoint(id), and Redis answered it
Loaded(id) == lastOp.op = "load" /\ lastOp.jobId = id /\ ~lastOp.fail

\* C17: a loadCheckpoint that follows a saveCheckpoint of the same job id,
\* with no other write of the key and no expiry in between, returns a
\* checkpoint with the saved messages, turns, maxTurns, selectedModel and
\* workspaceConfig, at the current version.
C17_RoundTrip ==
    \A id \in JobIds :
        (Loaded(id) /\ SaveStands(id)) =>
            /\ ~lastOp.threw
            /\ lastOp.result.kind = "value"
            /\ LET loaded == lastOp.result.value
                   saved == written[id].input
               IN  /\ loaded.jobId = id
                   /\ loaded.messages = saved.messages
                   /\ loaded.turns = saved.turns
                   /\ loaded.maxTurns = saved.maxTurns
                   /\ Get(loaded, "selectedModel") = saved.selectedModel
                   /\ loaded.workspaceConfig = saved.workspaceConfig
                   /\ loaded.workspaceId = saved.workspaceId
                   /\ loaded.taskDescription = saved.taskDescription
                   /\ loaded.version = CHECKPOINT_VERSION
                   /\ loaded.lastUpdated = ISOString(written[id].at)

C17_Witness ==
    /\ Loaded("job-2") /\ SaveStands("job-2")
    /\ lastOp.result.kind = "value"
    /\ Len(lastOp.result.value.messages) = 3
    /\ lastOp.result.value.messages[2].reasoning_content = "think"
    /\ lastOp.result.value.messages[3].content[2].is_error
    /\ lastOp.result.value.selectedModel = Some("deepseek-reasoner")
    /\ now > written["job-2"].at

\* the live keys that belong to a job id
EntriesOf(id) == {key \in DOMAIN redis : Live(redis, now, key) /\ StripPrefix(key) = id}

\* C18: when a job id is saved again with another content, the store holds
\* exactly one entry for the id, and loadCheckpoint gives the content of the
\* latest save.
C18_LatestSaveWins ==
    \A id \in JobIds :
        (SaveStands(id) /\ written[id].overwrote) =>
            /\ Cardinality(EntriesOf(id)) = 1
            /\ StoredCheckpoint(id).kind = "value"
            /\ StoredCheckpoint(id).value.jobId = id
            /\ StoredCheckpoint(id).value.turns = written[id].input.turns
            /\ StoredCheckpoint(id).value.messages = written[id].input.messages

C18_Witness ==
    /\ SaveStands("job-1") /\ written["job-1"].overwrote
    /\ SaveStands("job-2")
    /\ written["job-1"].input.turns = 0
    /\ written["job-2"].input.turns = 1
    /\ Loaded("job-1")
    /\ lastOp.result.kind = "value"
    /\ lastOp.result.value.turns = 0

\* the job id's key holds a record of another version than CHECKPOINT_VERSION
OtherVersion(store, t, id) ==
    /\ Live(store, t, getCheckpointKey(id))
    /\ ~JSONParse(store[getCheckpointKey(id)].data).threw
    /\ Get(JSONParse(store[getCheckpointKey(id)].data).value, "version") # CHECKPOINT_VERSION

\* C19: loadCheckpoint of a job id whose stored record has another version
\* returns null, does not throw, and leaves the store as it was.
C19_VersionMismatchIsAbsent ==
    /\ [](\A id \in JobIds :
            (Loaded(id) /\ OtherVersion(redis, now, id)) =>
                (~lastOp.threw /\ lastOp.result = Null))
    /\ [][lastOp'.op = "load" => redis' = redis]_vars

C19_Witness ==
    /\ Loaded("job-1") /\ OtherVersion(redis, now, "job-1")
    /\ written["job-1"].kind = "foreign"
    /\ lastOp.result = Null
    /\ CheckpointExists("job-1")

\* the job id's key holds data that is not JSON
Unreadable(store, t, id) ==
    /\ Live(store, t, getCheckpointKey(id))
    /\ JSONParse(store[getCheckpointKey(id)].data).threw

\* C20: saveCheckpoint, loadCheckpoint and deleteCheckpoint never throw; when
\* Redis fails, save and delete return normally and leave the store as it
\* was, and load returns null; load returns null for unreadable data too.
C20_FailuresSwallowed ==
    /\ [](lastOp.op \in {"save", "load", "delete"} => ~lastOp.threw)
    /\ [](lastOp.op \in {"save", "delete"} => lastOp.result = Void)
    /\ [](\A id \in JobIds :
            (lastOp.op = "load" /\ lastOp.jobId = id
                /\ (lastOp.fail \/ Unreadable(redis, now, id))) => lastOp.result = Null)
    /\ [][(lastOp'.op \in {"save", "load", "delete"} /\ lastOp'.fail) =>
            (redis' = redis /\ written' = written)]_vars

C20_Witness ==
    /\ lastOp.op = "load" /\ lastOp.jobId = "job-1" /\ lastOp.fail
    /\ SaveStands("job-1")
    /\ StoredCheckpoint("job-1").kind = "value"
    /\ Unreadable(redis, now, "job-2")
    /\ lastOp.result = Null /\ ~lastOp.threw

(***************************************************************************)
(* C21, C22: deleting and expiry.                                          *)
(***************************************************************************)
\* the latest write of the job id's key was a deleteCheckpoint that Redis carried out
Deleted(id) == written[id].kind = "deleted"

\* the latest call was op(id), and Redis answered it
Called(op, id) == lastOp.op = op /\ lastOp.jobId = id /\ ~lastOp.fail

\* C21: once deleteCheckpoint(id) has been carried out (and the id is not
\* written again), no entry exists for the id, hasCheckpoint(id) gives false
\* and loadCheckpoint(id) gives null; deleteCheckpoint never throws, and for
\* an id without an entry it leaves the store as it was.
C21_DeleteIdempotent ==
    /\ [](\A id \in JobIds :
            /\ Deleted(id) => getCheckpointKey(id) \notin DOMAIN redis
            /\ (Deleted(id) /\ Called("has", id)) =>
                    (~lastOp.threw /\ lastOp.result = Value(FALSE))
            /\ (Deleted(id) /\ Called("load", id)) =>
                    (~lastOp.threw /\ lastOp.result = Null)
            /\ lastOp.op = "delete" => (~lastOp.threw /\ lastOp.result = Void))
    /\ [][\A id \in JobIds :
            (lastOp'.op = "delete" /\ lastOp'.jobId = id /\ ~CheckpointExists(id)) =>
                redis' = redis]_vars

C21_Witness ==
    /\ Deleted("job-1")
    /\ Called("has", "job-1")
    /\ lastOp.result = Value(FALSE)
    /\ SaveStands("job-2")
    /\ CheckpointExists("job-2")

\* C22: a saved entry that is neither deleted nor written again exists
\* exactly while less than CHECKPOINT_TTL seconds (7 days) have passed since
\* its latest save, whatever the expiry of the entry that save replaced.
C22_TtlResetOnSave ==
    \A id \in JobIds :
        written[id].kind = "save" =>
            /\ CheckpointExists(id) <=> now < written[id].at + 7 * 24 * 60 * 60
            /\ CheckpointExists(id) =>
                   redis[getCheckpointKey(id)].expireAt = written[id].at + 7 * 24 * 60 * 60
            /\ Called("has", id) => lastOp.result = Value(CheckpointExists(id))

C22_Witness ==
    /\ written["job-1"].kind = "save"
    /\ written["job-1"].overwrote
    /\ written["job-1"].at = 1
    /\ now = 7 * 24 * 60 * 60
    /\ Called("has", "job-1")
    /\ lastOp.result = Value(TRUE)
    /\ written["job-2"].kind = "save"
    /\ written["job-2"].at = 0
    /\ ~CheckpointExists("job-2")

(***************************************************************************)
(* C30: onProgress.                                                        *)
(***************************************************************************)
\* C30: the turn values passed to onProgress are 1, 2, 3, ... in this order,
\* none repeated and none skipped, each at most maxTurns, and each turn's LLM
\* calls are made after the invocation for that turn.
C30_ProgressOncePerTurn ==
    /\ \A i \in DOMAIN progressed : progressed[i] = i /\ progressed[i] <= maxTurns
    /\ pc \in {"chat", "sleep", "retryChat"} => (progressed # <<>> /\ Last(progressed) = turns)

(***************************************************************************)
(* C26 - C29: processJob.                                                  *)
(***************************************************************************)
\* processJob has built its result
ResultBuilt == jobPc \in {"finish", "callback", "return", "returned"}

\* processJob has returned and the worker has recorded it
JobReturned == jobPc = "returned"

\* createWorkspace threw: the agent loop was never started
WorkspaceFailed == ResultBuilt /\ cleanups = <<>>

\* C26: after a job whose LLM calls failed past all retries, the job is in
\* state failed and a checkpoint of the job is stored (so that a resume
\* request for it finds both).
C26_FailedJobKeepsCheckpoint ==
    (JobReturned /\ Threw /\ outcome.retries = MAX_RETRIES) =>
        /\ jobs[RunJobId].state = "failed"
        /\ CheckpointExists(RunJobId)

ResultDetermined ==
    IF WorkspaceFailed THEN jobResult.success = FALSE
    ELSE IF Threw THEN jobResult = FailedJobResult(outcome.message)
    ELSE jobResult = AgentJobResult(outcome)

\* C28: no callback is posted before the result is built and 100 is
\* reported; then exactly one is posted when the job has a callback url and
\* none when it has not; its status is completed for a successful result and
\* failed otherwise and it carries the result; whatever the endpoint answers,
\* the result stays as built and processJob returns it.
C28_OneCallbackAfterResult ==
    /\ jobPc \notin {"return", "returned"} => callbacks = <<>>
    /\ jobPc \in {"return", "returned"} =>
            Len(callbacks) = IF jobs[RunJobId].data.callback = Undefined THEN 0 ELSE 1
    /\ \A i \in DOMAIN callbacks :
            /\ callbacks[i].url = jobs[RunJobId].data.callback[1].url
            /\ callbacks[i].payload.jobId = RunJobId
            /\ callbacks[i].payload.status =
                   (IF jobResult.success THEN "completed" ELSE "failed")
            /\ callbacks[i].payload.success = jobResult.success
            /\ callbacks[i].payload.message = jobResult.message
            /\ callbacks[i].payload.error = jobResult.error
            /\ callbacks[i].payload.pullRequestUrl = jobResult.pullRequestUrl
            /\ callbacks[i].progress # <<>>
            /\ Last(callbacks[i].progress) = 100
    /\ ResultBuilt => (jobResult.kind = "result" /\ ResultDetermined)
    /\ JobReturned => jobs[RunJobId].returnvalue = Some(jobResult)

C28_Witness ==
    /\ JobReturned
    /\ Len(callbacks) = 1
    /\ callbacks[1].sent = FALSE
    /\ callbacks[1].payload.status = "failed"
    /\ callbacks[1].payload.error = Some("MAX_TURNS_EXCEEDED")
    /\ jobs[RunJobId].returnvalue[1].error = Some("MAX_TURNS_EXCEEDED")

\* the percentages passed to job.updateProgress so far
JobProgress ==
    IF jobPc = "agent" THEN progress \o TurnPercentages(progressed, maxTurns) ELSE progress

\* C29: the percentages reported for a job never decrease and lie in 0..100,
\* the turn-based ones in 20..90, and once processJob is past its last
\* updateProgress the latest value is 100.
C29_ProgressMonotone ==
    LET reported == JobProgress
        turnBased == TurnPercentages(progressed, maxTurns)
    IN  /\ \A i \in DOMAIN reported : reported[i] \in 0..100
        /\ \A i \in 1..(Len(reported) - 1) : reported[i] <= reported[i + 1]
        /\ \A i \in DOMAIN turnBased :
                /\ turnBased[i] \in 20..90
                /\ jobPc \notin {"start", "workspace"} => reported[2 + i] = turnBased[i]
        /\ jobPc \in {"callback", "return", "returned"} =>
                (reported # <<>> /\ Last(reported) = 100)

C29_Witness ==
    /\ JobReturned
    /\ Threw
    /\ maxTurns = 2
    /\ progress = <<10, 20, 55, 90, 100>>

(***************************************************************************)
(* C23 - C25: resuming.                                                    *)
(***************************************************************************)
\* the latest request was POST /checkpoints/id/resume
Resuming(id) == lastOp.op = "resume" /\ lastOp.jobId = id

\* the state of the job id in the queue (absent when the queue has no such job)
QueueState(id) == IF id \in DOMAIN jobs THEN jobs[id].state ELSE "absent"

\* the jobs a resume has added
ResumedJobs == {id \in DOMAIN jobs : "_resume" \in DOMAIN jobs[id].data}

\* C23: a resume request gets 404 'Checkpoint not found' when no checkpoint
\* of the job id can be loaded, 400 'Job already running' when the job is
\* waiting or active, and 400 'Job already completed' when it is completed;
\* none of these requests adds a job to the queue.
C23_ResumeRejections ==
    /\ [](\A id \in JobIds :
            Resuming(id) =>
                /\ ~lastOp.threw
                /\ (lastOp.fail \/ StoredCheckpoint(id) = Null) =>
                        lastOp.result = Rejected(404, "Checkpoint not found")
                /\ (~lastOp.fail /\ StoredCheckpoint(id) # Null
                        /\ QueueState(id) \in {"waiting", "active"}) =>
                        lastOp.result = Rejected(400, "Job already running")
                /\ (~lastOp.fail /\ StoredCheckpoint(id) # Null
                        /\ QueueState(id) = "completed") =>
                        lastOp.result = Rejected(400, "Job already completed")
                /\ lastOp.result.status = 200 =>
                        (QueueState(id) = "failed" /\ StoredCheckpoint(id) # Null))
    /\ [][(lastOp'.op = "resume" /\ lastOp'.result.status # 200) => jobs' = jobs]_vars
    /\ [][(lastOp'.op = "resume" /\ lastOp'.result.status = 200) =>
            /\ DOMAIN jobs' = DOMAIN jobs \cup {lastOp'.result.newJobId}
            /\ lastOp'.result.newJobId \notin DOMAIN jobs
            /\ \A id \in DOMAIN jobs : jobs'[id] = jobs[id]]_vars

C23_Witness ==
    /\ Resuming("job-1")
    /\ QueueState("job-1") = "completed"
    /\ StoredCheckpoint("job-1").kind = "value"
    /\ lastOp.result.status = 400
    /\ lastOp.result.error = "Job already completed"
    /\ ResumedJobs = {}
    /\ QueueState("job-2") = "active"

\* C24: a resume request, accepted or rejected, leaves every stored
\* checkpoint entry, its data and its expiry, as it was.
C24_ResumeKeepsCheckpoint ==
    /\ [][lastOp'.op = "resume" => redis' = redis]_vars
    /\ [](\A id \in JobIds :
            (Resuming(id) /\ lastOp.result.status = 200) =>
                /\ CheckpointExists(id)
                /\ StoredCheckpoint(id).kind = "value"
                /\ StoredCheckpoint(id).value.turns = lastOp.result.resumedFrom.turns
                /\ StoredCheckpoint(id).value.lastUpdated = lastOp.result.resumedFrom.lastUpdated
                /\ Len(StoredCheckpoint(id).value.messages) =
                       lastOp.result.resumedFrom.messageCount)

C24_Witness ==
    /\ Resuming("job-1")
    /\ lastOp.result.status = 200
    /\ lastOp.result.newJobId = "job-2"
    /\ lastOp.result.resumedFrom.messageCount = 3
    /\ CheckpointExists("job-1")
    /\ jobs["job-2"].data._resume.fromJobId = "job-1"
    /\ jobs["job-2"].data.callback = Some([url |-> "https://hook.example/resumed"])

\* C25: the agent loop of a job that a resume added starts with the messages
\* and the turn count of the checkpoint it was resumed from.
C25_ResumedJobContinues ==
    \A id \in ResumedJobs :
        LET from == jobs[id].data._resume.fromJobId
        IN  (jobs[id].started # Undefined /\ from \in JobIds /\ SaveStands(from)) =>
                /\ jobs[id].started[1].messages = written[from].input.messages
                /\ jobs[id].started[1].turns = written[from].input.turns

(***************************************************************************)
(* C31 - C34: the two paths of a turn, tool batches, the turn counter and  *)
(* the shape of the conversation.                                          *)
(***************************************************************************)
\* a response has been received by the chat call of the retry loop
RetryResponseStep == pc = "retryChat" /\ processed' = processed + 1

\* C31: a response received on a retry is processed as the same response
\* received on the turn's first call is: the same messages are appended, the
\* same tools are about to run, the run ends with the same result, and the
\* loop goes on from the same state (the same turn counter).
C31_RetryProcessedAsFirstCall ==
    [][RetryResponseStep =>
        LET response == lastResp'
            pushed == Append(messages, AssistantMessage(response))
            blocks == SelectSeq(response.content, IsToolUse)
        IN  /\ turns' = turns
            /\ response.stopReason = "end_turn" =>
                   /\ messages' = pushed
                   /\ pc' = "done"
                   /\ outcome' = EndTurnResult(response.content, turns)
            /\ (response.stopReason = "tool_use" /\ blocks # <<>>) =>
                   /\ messages' = pushed
                   /\ pc' \in {"tools", "retryTools"}
                   /\ toolUseBlocks' = blocks
                   /\ outcome' = outcome
            /\ (response.stopReason = "tool_use" /\ blocks = <<>>) =>
                   /\ messages' = Append(pushed, UserMessage(<<>>))
                   /\ pc' = "while"
                   /\ outcome' = outcome
            /\ response.stopReason \notin {"end_turn", "tool_use"} =>
                   /\ messages' = pushed
                   /\ pc' = "done"
                   /\ outcome' = MaxTurnsResult(turns, maxTurns)]_vars

\* the ids of the tool_use blocks of a batch, in the order of the response
RECURSIVE IdsOf(_)
IdsOf(blocks) == IF blocks = <<>> THEN <<>> ELSE <<Head(blocks).id>> \o IdsOf(Tail(blocks))

\* the tool_use_ids of the blocks of a tool result message, in their order
RECURSIVE AnsweredIds(_)
AnsweredIds(results) ==
    IF results = <<>> THEN <<>> ELSE <<Head(results).tool_use_id>> \o AnsweredIds(Tail(results))

\* the loop is between two tool calls of a batch
InBatch == pc \in {"tools", "retryTools"}

\* every tool call of the latest response has finished and the loop goes on
BatchComplete == pc = "while" /\ stopReasons # <<>> /\ Last(stopReasons) = "tool_use"

\* C32: the tool calls of a response run one at a time in the order of the
\* response (a call starts when every earlier call has left its result),
\* nothing is appended to the conversation while the batch runs, and
\* when the batch is complete its results are one user message right after
\* the assistant message, one block per call, in the order of the calls.
C32_ToolsInOrderOneMessage ==
    LET ids == IdsOf(toolUseBlocks)
    IN  /\ Len(toolRuns) <= Len(ids)
        /\ toolRuns = SubSeq(ids, 1, Len(toolRuns))
        /\ InBatch =>
               /\ Len(toolRuns) = toolIdx - 1
               /\ Len(toolResults) = Len(toolRuns)
               /\ AnsweredIds(toolResults) = toolRuns
               /\ Last(messages) = AssistantMessage(lastResp)
        /\ BatchComplete =>
               /\ toolRuns = ids
               /\ Last(messages).role = "user"
               /\ Last(messages).content = toolResults
               /\ AnsweredIds(Last(messages).content) = ids
               /\ messages[Len(messages) - 1] = AssistantMessage(lastResp)

C32_Witness ==
    /\ BatchComplete
    /\ Len(toolUseBlocks) = 2
    /\ Len(Last(messages).content) = 2
    /\ "is_error" \in DOMAIN Last(messages).content[1]
    /\ "is_error" \notin DOMAIN Last(messages).content[2]
    /\ sleeps # <<>>

\* C33: the turn counter stays within 0..maxTurns, also while and after a
\* failed call is retried, and the turn number of every returned result and
\* of every thrown error is within 1..maxTurns.
C33_TurnsWithinBudget ==
    /\ 0 <= turns
    /\ turns <= maxTurns
    /\ Returned => (1 <= outcome.turns /\ outcome.turns <= maxTurns)
    /\ Threw => (1 <= outcome.turn /\ outcome.turn <= maxTurns)

C33_Witness ==
    /\ Done
    /\ Returned
    /\ sleeps # <<>>
    /\ turns = 0
    /\ outcome.turns = 1
    /\ maxTurns = 1

\* the conversation is about to be passed, or is being passed, to llmProvider.chat
Sending == pc \in {"chat", "sleep", "retryChat"}

\* user, assistant, user, ... from the first message on
Alternates(msgs) ==
    /\ msgs # <<>>
    /\ msgs[1].role = "user"
    /\ \A i \in 1..(Len(msgs) - 1) : msgs[i].role # msgs[i + 1].role

\* C34: every conversation passed to the LLM starts with the user's task
\* message, alternates between user and assistant and ends with a user
\* message, and a failed LLM call leaves the conversation as it was.
C34_ConversationAlternates ==
    /\ [](Sending => (Alternates(messages) /\ Last(messages).role = "user"))
    /\ [][LLMFailStep => messages' = messages]_vars

(***************************************************************************)
(* C35: the readers of the checkpoint store.                               *)
(***************************************************************************)
\* C35: hasCheckpoint of a job id is true exactly when loadCheckpoint of it
\* returns a checkpoint, and every id that listActiveCheckpoints returns has
\* a checkpoint that loads and metadata that is not null.
C35_ReadersAgree ==
    /\ \A id \in JobIds :
           hasCheckpoint(redis, now, id) <=> (StoredCheckpoint(id) # Null)
    /\ \A id \in listActiveCheckpoints(redis, now, FALSE) :
           /\ StoredCheckpoint(id) # Null
           /\ getCheckpointMetadata(redis, now, id, FALSE) # Null

(***************************************************************************)
(* C36 - C37: can-resume and repeated resumes.                             *)
(***************************************************************************)
\* what POST /checkpoints/id/resume would do in the current state
ResumeNow(id) == resume(redis, now, jobs, id, Undefined, FALSE)

\* C36: in every state, can-resume of a job id reports canResume = true
\* exactly when a resume request for it made in that state is accepted and
\* adds a job to the queue.
C36_CanResumeAgreesWithResume ==
    \A id \in JobIds :
        canResume(redis, now, jobs, id).canResume <=>
            (ResumeNow(id).reply.status = 200 /\ ResumeNow(id).queue # jobs)

\* the jobs that resumes of the job id have added
ResumedFrom(id) == {j \in ResumedJobs : jobs[j].data._resume.fromJobId = id}

\* C37: however many resume requests are made for a job id, at most one job
\* is added for it: the queue never holds two jobs resumed from the same
\* job, and once it holds one, a further resume request for that job is
\* not accepted.
C37_AtMostOneResumedJob ==
    \A id \in JobIds :
        /\ Cardinality(ResumedFrom(id)) <= 1
        /\ ResumedFrom(id) # {} => ResumeNow(id).reply.status # 200

(***************************************************************************)
(* C38: the cleanup of the job's workspaces.                               *)
(***************************************************************************)
\* runAgentLoop was started and has returned or thrown
LoopEnded == outcome.kind # "none"

\* the result processJob builds from what the agent loop left
ResultOfLoop ==
    IF Returned THEN AgentJobResult(outcome) ELSE FailedJobResult(outcome.message)

\* C38: for a job whose workspace was created, cleanupJobWorkspaces is
\* called once, after the agent loop has returned a success, returned a
\* failure result, or thrown, and before the result is built, the callback
\* is sent and the job returns; it is not called before; and whether its rm
\* fails or not, the job's result is the one the agent loop's end determines.
C38_CleanupOnceBeforeResult ==
    /\ Len(cleanups) <= 1
    /\ jobPc \in {"start", "workspace", "agent"} => cleanups = <<>>
    /\ (ResultBuilt /\ LoopEnded) =>
           /\ Len(cleanups) = 1
           /\ cleanups[1].jobId = RunJobId
           /\ jobResult = ResultOfLoop
    /\ \A i \in DOMAIN callbacks :
           LoopEnded => (Len(cleanups) = 1 /\ callbacks[i].payload.success = ResultOfLoop.success)
    /\ JobReturned => jobs[RunJobId].returnvalue = Some(jobResult)

C38_Witness ==
    /\ JobReturned
    /\ Returned
    /\ outcome.success
    /\ Len(cleanups) = 1
    /\ cleanups[1].rmFailed
    /\ jobResult.success
    /\ Len(callbacks) = 1

====
